---- MODULE Spec2Model ----
(***************************************************************************)
(* A model of the blackfynn client object model (blackfynn/models.py):     *)
(* the type resolver, and the entity graph with its lazily loaded, cached  *)
(* child lists, driven against a remote store reached through the verbs    *)
(* create / update / delete / get.                                         *)
(***************************************************************************)
EXTENDS Integers, Sequences, FiniteSets, TLC

\* ------------------------------------------------------------------ bounds
\* size of the pool of in-memory objects (Python instances)
MaxObj == 6
\* objects the caller holds at the start, besides the first Dataset
NumBuilt == 2
\* identifiers the remote store can hand out
MaxId == 4
\* longest argument list of add(*items) / remove(*items)
MaxArgs == 2
\* longest child list a container is let grow to
MaxItems == 2
\* calls the caller makes in one run
MaxCalls == 3
\* most upper-case letters in a type tag drawn for the resolver
MaxUpper == 2
\* keys under test in one wire record handed to from_dict
MaxExtra == 2
\* property calls made on one node
MaxPropCalls == 3
\* Property objects handed to one add_properties call
MaxEntries == 2
\* ids that occur in ownership paths
MaxKey == 4
\* length of an ownership path
MaxPath == 3
\* trees folded by one reduce(merge, trees)
MaxTrees == 3
\* from_dict calls made on one wire record
MaxBuilds == 2

\* ------------------------------------------------------------- vocabulary
\* Python's None
None == 0
\* an attribute that is not in the instance's __dict__
Absent == -1
Ids == 1..MaxId
Objs == 1..MaxObj
\* slot of the transient instance a from_dict call is building
Scratch == 0
Slots == 0..MaxObj

RECURSIVE SetToSeq(_)
\* the members of a finite set of integers, ascending
SetToSeq(S) ==
  IF S = {} THEN <<>>
  ELSE LET m == CHOOSE x \in S : \A y \in S : x <= y
       IN <<m>> \o SetToSeq(S \ {m})

Min(a, b) == IF a <= b THEN a ELSE b

\* ---------------------------------------------------------- type resolver
UpperCase == <<"A","B","C","D","E","F","G","H","I","J","K","L","M",
               "N","O","P","Q","R","S","T","U","V","W","X","Y","Z">>
LowerCase == <<"a","b","c","d","e","f","g","h","i","j","k","l","m",
               "n","o","p","q","r","s","t","u","v","w","x","y","z">>

\* str.lower() on one character
LowerChar(ch) ==
  IF \E i \in DOMAIN UpperCase : UpperCase[i] = ch
  THEN LowerCase[CHOOSE i \in DOMAIN UpperCase : UpperCase[i] = ch]
  ELSE ch

\* str.upper() on one character
UpperChar(ch) ==
  IF \E i \in DOMAIN LowerCase : LowerCase[i] = ch
  THEN UpperCase[CHOOSE i \in DOMAIN LowerCase : LowerCase[i] = ch]
  ELSE ch

\* str.lower(): a string is a sequence of characters
lower(s) == [i \in DOMAIN s |-> LowerChar(s[i])]

\* the type tags and words of models.py used here, by their spelling
words ==
  [collection |-> <<"c","o","l","l","e","c","t","i","o","n">>,
   timeseries |-> <<"t","i","m","e","s","e","r","i","e","s">>,
   tabular |-> <<"t","a","b","u","l","a","r">>,
   dataset |-> <<"d","a","t","a","s","e","t">>,
   Collection |-> <<"C","o","l","l","e","c","t","i","o","n">>,
   MRI |-> <<"M","R","I">>,
   mri |-> <<"m","r","i">>,
   frobnicate |-> <<"f","r","o","b","n","i","c","a","t","e">>,
   collections |-> <<"c","o","l","l","e","c","t","i","o","n","s">>,
   data |-> <<"d","a","t","a">>]

\* the branch of get_package_class taken for a lower-cased tag
class_of_ptype(ptype) ==
  IF ptype = words.collection THEN "Collection"
  ELSE IF ptype = words.timeseries THEN "TimeSeries"
  ELSE IF ptype = words.tabular THEN "Tabular"
  ELSE IF ptype = words.dataset THEN "Dataset"
  ELSE "DataPackage"

\* get_package_class without the .lower() of the tag
get_package_class_case_sensitive(data) ==
  LET content == IF data.hasContent
                 THEN data.content
                 ELSE [hasTag |-> data.hasTag, tag |-> data.tag]
  IN IF ~content.hasTag THEN "Dataset"
     ELSE class_of_ptype(content.tag)

\* A wire record, as far as the resolver reads it: its own packageType
\* (hasTag, tag) and, when it has one, the packageType of its 'content'.
\*   content = data.get('content', data)
get_package_class(data) ==
  LET content == IF data.hasContent
                 THEN data.content
                 ELSE [hasTag |-> data.hasTag, tag |-> data.tag]
  IN IF ~content.hasTag THEN "Dataset"
     ELSE class_of_ptype(lower(content.tag))

\* ------------------------------------------------------------ the state
VARIABLES
  obj,       \* obj[o]: the fields of in-memory instance o
  remote,    \* remote[i]: the remote store's record with id i
  nextId,    \* the next id the remote store assigns
  last,      \* the last call: its name, receiver, arguments, outcome, remote calls
  steps,     \* the calls made so far
  run,       \* run[o]: the reads of o.items since the last other call on o
  data,      \* the wire record handed to the type resolver
  resolved,  \* the class the resolver returned for it
  wire,      \* the wire record handed to from_dict
  constructed, \* the instance from_dict made of it, or the exception it raised
  pnode,     \* a data node as far as its property store goes
  pcall,     \* the last property call on it and its outcome
  prop,      \* a Property
  echo,      \* the Property rebuilt from prop's wire form
  acc,       \* the tree the fold of merge has accumulated
  folded,    \* the trees folded into it so far, in order
  mres,      \* the outcome of the last merge: the exception and the path it names
  walk       \* get_item_path under way: the node it is at, what it has collected

vars == <<obj, remote, nextId, last, run, steps, data, resolved, wire, constructed,
          pnode, pcall, prop, echo, acc, folded, mres, walk>>
graphVars == <<obj, remote, nextId, last, run, steps>>
resolverVars == <<data, resolved>>
constructVars == <<wire, constructed>>
storeVars == <<pnode, pcall>>
propertyVars == <<prop, echo>>
mergeVars == <<acc, folded, mres, walk>>
sideVars == <<constructVars, storeVars, propertyVars, mergeVars>>

\* ------------------------------------------------------- objects, records
IsCollectionKind(k) == k \in {"Dataset", "Collection"}

\* a pool slot that holds no instance
DeadObj ==
  [live |-> FALSE, kind |-> "", id |-> None, parent |-> None,
   dataset |-> None, state |-> "", loaded |-> FALSE, items |-> <<>>]

\* BaseDataNode.__init__ / BaseCollection.__init__ / Dataset.__init__ called
\* with no id: parent, dataset and id are None, _items is None (not loaded);
\* a Dataset pops 'parent', 'dataset' and 'state' out of its __dict__; a
\* state is the text of the string, "" for None, "absent" for no attribute
init_node(k) ==
  [live |-> TRUE, kind |-> k, id |-> None,
   parent |-> IF k = "Dataset" THEN Absent ELSE None,
   dataset |-> IF k = "Dataset" THEN Absent ELSE None,
   state |-> IF k = "Dataset" THEN "absent" ELSE "",
   loaded |-> FALSE, items |-> <<>>]

NoRecord ==
  [present |-> FALSE, hasTag |-> FALSE, tag |-> <<>>, parent |-> None, dataset |-> None,
   state |-> ""]


\* the packageType an instance of class k sends in as_dict (none for a Dataset)
type_tag(k) == IF k = "Collection" THEN words.Collection ELSE words.MRI

NoneIfUnset(v) == IF v = Absent THEN None ELSE v

\* the record the store keeps for what as_dict sent
as_record(o) ==
  IF o.kind = "Dataset"
  THEN [present |-> TRUE, hasTag |-> FALSE, tag |-> <<>>, parent |-> None, dataset |-> None,
        state |-> ""]
  ELSE [present |-> TRUE, hasTag |-> TRUE, tag |-> type_tag(o.kind),
        parent |-> NoneIfUnset(o.parent), dataset |-> NoneIfUnset(o.dataset),
        state |-> IF o.state = "absent" THEN "" ELSE o.state]

\* a store record as the wire record the resolver sees
wire_of(rec) ==
  [hasContent |-> TRUE, content |-> [hasTag |-> rec.hasTag, tag |-> rec.tag],
   hasTag |-> FALSE, tag |-> <<>>]

\* the store's direct children of id p: of a Dataset, the records of that
\* dataset with no parent; of a Collection, the records whose parent is p
ChildIds(rem, p) ==
  IF ~rem[p].present THEN {}
  ELSE IF ~rem[p].hasTag
       THEN {i \in Ids : rem[i].present /\ rem[i].hasTag
                          /\ rem[i].parent = None /\ rem[i].dataset = p}
       ELSE {i \in Ids : rem[i].present /\ rem[i].parent = p}

RECURSIVE Below(_, _, _)
\* S and everything the store holds beneath S (n rounds of closure)
Below(rem, S, n) ==
  IF n = 0 THEN S
  ELSE Below(rem, S \cup {i \in Ids : rem[i].present
                            /\ (rem[i].parent \in S \/ rem[i].dataset \in S)}, n - 1)

\* the world an operation runs in and returns: the instances, the store, the
\* remote calls issued so far by this operation, the exception raised ("" when
\* none), and the value the last remote call returned
World == [obj |-> obj, remote |-> remote, nextId |-> nextId,
          calls |-> <<>>, err |-> "", ret |-> DeadObj]

raise(W, e) == [W EXCEPT !.err = e]

Call(verb, target) == [verb |-> verb, target |-> target]

\* whether the next remote call of this operation is the one that fails
Fails(W, fail) == fail = Len(W.calls) + 1

\* BaseNode.exists
exists(W, o) == W.obj[o].id # None

\* BaseNode._check_exists passes
check_exists(W, o) == exists(W, o)

\* __eq__ comparing the ids whether or not they are set
eq_ids_only(W, a, b) == W.obj[a].id = W.obj[b].id

\* BaseNode.__eq__
eq(W, a, b) ==
  IF exists(W, a) /\ exists(W, b) THEN W.obj[a].id = W.obj[b].id ELSE a = b

\* `item in seq`
contains(W, seq, x) == \E i \in DOMAIN seq : eq(W, x, seq[i])

\* dict.update: the keys of r's __dict__ overwrite those of o
dict_update(o, r) ==
  [o EXCEPT !.id = r.id,
            !.parent = IF r.parent = Absent THEN @ ELSE r.parent,
            !.dataset = IF r.dataset = Absent THEN @ ELSE r.dataset,
            !.state = IF r.state = "absent" THEN @ ELSE r.state,
            !.loaded = IF IsCollectionKind(r.kind) THEN r.loaded ELSE @,
            !.items = IF IsCollectionKind(r.kind) THEN r.items ELSE @]

\* the instance built from the store's record of id i, before any children
\* are attached
node_of_record(rem, i) ==
  LET k == get_package_class(wire_of(rem[i]))
  IN [live |-> TRUE, kind |-> k, id |-> i,
      parent |-> IF k = "Dataset" THEN Absent ELSE rem[i].parent,
      dataset |-> IF k = "Dataset" THEN Absent ELSE rem[i].dataset,
      state |-> IF k = "Dataset" THEN "absent" ELSE rem[i].state,
      loaded |-> FALSE, items |-> <<>>]

\* api.core.create(item): an item that exists is returned as it is; otherwise
\* one remote create, which fails or stores the item under a fresh id and
\* returns the instance built from the response
core_create(W, item, fail) ==
  IF exists(W, item) THEN [W EXCEPT !.ret = W.obj[item]]
  ELSE LET it == W.obj[item]
           rec == as_record(it)
           W1 == [W EXCEPT !.calls = Append(@, Call("create", item))]
           known == /\ rec.parent # None => W.remote[rec.parent].present
                    /\ rec.dataset # None => W.remote[rec.dataset].present
       IN IF Fails(W, fail) \/ ~known
          THEN raise(W1, "RemoteError")
          ELSE LET rem1 == [W.remote EXCEPT ![W.nextId] = rec]
               IN [W1 EXCEPT !.remote = rem1,
                             !.nextId = @ + 1,
                             !.ret = node_of_record(rem1, W.nextId)]

\* link with the Collection branch setting the item's dataset to self.id
link_dataset_is_self(self, item) ==
  IF self.kind = "Dataset"
  THEN [item EXCEPT !.parent = None, !.dataset = self.id]
  ELSE [item EXCEPT !.parent = self.id, !.dataset = self.id]

\* BaseCollection.add, the linking of one item (lines 503-508)
link(self, item) ==
  IF self.kind = "Dataset"
  THEN [item EXCEPT !.parent = None, !.dataset = self.id]
  ELSE [item EXCEPT !.parent = self.id, !.dataset = self.dataset]

\* list.insert(0, x) in place of list.append
prepend(seq, x) == <<x>> \o seq

\* list.append
append(seq, x) == Append(seq, x)

RECURSIVE add_loop_new_only(_, _, _, _, _)
\* the loop of add skipping, with the create, the linking and the append of
\* an item that already exists
add_loop_new_only(W, c, items, i, fail) ==
  IF i > Len(items) THEN W
  ELSE LET item == items[i]
           W1 == IF ~W.obj[c].loaded
                 THEN [W EXCEPT !.obj[c].loaded = TRUE, !.obj[c].items = <<>>]
                 ELSE W
           W2 == [W1 EXCEPT !.obj[item] = link(W1.obj[c], @)]
           W3 == core_create(W2, item, fail)
       IN IF exists(W, item) THEN add_loop_new_only(W1, c, items, i + 1, fail)
          ELSE IF W3.err # "" THEN W3
          ELSE LET W4 == [W3 EXCEPT !.obj[item] = dict_update(@, W3.ret)]
                   W5 == [W4 EXCEPT !.obj[c].items = append(@, item)]
               IN add_loop_new_only(W5, c, items, i + 1, fail)

RECURSIVE add_loop(_, _, _, _, _)
\* BaseCollection.add, the loop over the items from the i-th on
add_loop(W, c, items, i, fail) ==
  IF i > Len(items) THEN W
  ELSE LET item == items[i]
           W1 == IF ~W.obj[c].loaded
                 THEN [W EXCEPT !.obj[c].loaded = TRUE, !.obj[c].items = <<>>]
                 ELSE W
           W2 == [W1 EXCEPT !.obj[item] = link(W1.obj[c], @)]
           W3 == core_create(W2, item, fail)
       IN IF W3.err # "" THEN W3
          ELSE LET W4 == [W3 EXCEPT !.obj[item] = dict_update(@, W3.ret)]
                   W5 == [W4 EXCEPT !.obj[c].items = append(@, item)]
               IN add_loop(W5, c, items, i + 1, fail)

\* add without its _check_exists
add_unchecked(W, c, items, fail) == add_loop(W, c, items, 1, fail)

\* BaseCollection.add
add(W, c, items, fail) ==
  IF ~check_exists(W, c) THEN raise(W, "NotYetCreated")
  ELSE add_loop(W, c, items, 1, fail)

\* the pool slots that hold no instance, ascending
FreeSlots(W) == SetToSeq({o \in Objs : ~W.obj[o].live})

\* from_dict building every child as a DataPackage, the resolver not asked
collection_from_dict_unresolved(W, i, withChildren) ==
  LET kids == IF withChildren THEN SetToSeq(ChildIds(W.remote, i)) ELSE <<>>
      free == FreeSlots(W)
      slots == [j \in 1..Len(kids) |-> free[j]]
      built == [o \in Slots |->
                  IF o = Scratch THEN node_of_record(W.remote, i)
                  ELSE IF \E j \in 1..Len(kids) : slots[j] = o
                       THEN [node_of_record(W.remote,
                               kids[CHOOSE j \in 1..Len(kids) : slots[j] = o])
                             EXCEPT !.kind = "DataPackage"]
                       ELSE W.obj[o]]
      W1 == add([W EXCEPT !.obj = built], Scratch, slots, 0)
  IN [W1 EXCEPT !.ret = W1.obj[Scratch], !.obj[Scratch] = DeadObj]

\* BaseCollection.from_dict on the store's record of id i: the instance is
\* built, each record of the 'children' block (when the response carries one)
\* is resolved by get_package_class and built in turn, and the children are
\* attached with item.add(*children)
collection_from_dict(W, i, withChildren) ==
  LET kids == IF withChildren THEN SetToSeq(ChildIds(W.remote, i)) ELSE <<>>
      free == FreeSlots(W)
      slots == [j \in 1..Len(kids) |-> free[j]]
      built == [o \in Slots |->
                  IF o = Scratch THEN node_of_record(W.remote, i)
                  ELSE IF \E j \in 1..Len(kids) : slots[j] = o
                       THEN node_of_record(W.remote,
                              kids[CHOOSE j \in 1..Len(kids) : slots[j] = o])
                       ELSE W.obj[o]]
      W1 == add([W EXCEPT !.obj = built], Scratch, slots, 0)
  IN [W1 EXCEPT !.ret = W1.obj[Scratch], !.obj[Scratch] = DeadObj]

\* Dataset._get_method / Collection._get_method applied to self:
\* api.datasets.get(self) / api.packages.get(self), one remote fetch that
\* fails or returns the instance built from the record and its children
get_method(W, c, fail) ==
  LET i == W.obj[c].id
      W1 == [W EXCEPT !.calls = Append(@, Call("get", c))]
  IN IF Fails(W, fail) \/ ~W.remote[i].present
     THEN raise(W1, "RemoteError")
     ELSE collection_from_dict(W1, i, TRUE)

\* adopt without its `else []`: a fetched instance with no children leaves
\* _items None
adopt_none(self, new_self) ==
  [self EXCEPT !.loaded = new_self.loaded, !.items = new_self.items]

\* BaseCollection.items, lines 545-546: self takes the children of the
\* fetched instance, `new_items if new_items is not None else []`
adopt(self, new_self) ==
  [self EXCEPT !.loaded = TRUE,
               !.items = IF new_self.loaded THEN new_self.items ELSE <<>>]

\* BaseCollection.items (the property read)
items_read(W, c, fail) ==
  IF ~check_exists(W, c) THEN raise(W, "NotYetCreated")
  ELSE IF W.obj[c].loaded THEN W
  ELSE LET W1 == get_method(W, c, fail)
       IN IF W1.err # "" THEN W1
          ELSE [W1 EXCEPT !.obj[c] = adopt(@, W1.ret)]

\* BaseCollection.__contains__(item) for an instance: the answer, or the
\* exception raised
collection_contains(W, c, x) ==
  IF ~check_exists(W, c) THEN [err |-> "NotYetCreated", answer |-> FALSE]
  ELSE IF ~W.obj[c].loaded THEN [err |-> "", answer |-> FALSE]
  ELSE [err |-> "", answer |-> contains(W, W.obj[c].items, x)]

\* BaseCollection.__contains__(item) for an id string: the ids of self.items
\* (read through the property, which fetches when unloaded) are searched
collection_contains_id(W, c, i) ==
  LET W1 == items_read(W, c, 0)
  IN [err |-> W1.err,
      answer |-> W1.err = "" /\ \E k \in DOMAIN W1.obj[c].items :
                                 W1.obj[W1.obj[c].items[k]].id = i]

\* api.data.delete(*items): one remote call; it fails, or the store drops the
\* items and everything beneath them
data_delete(W, items, fail) ==
  LET W1 == [W EXCEPT !.calls = Append(@, Call("delete", None))]
      ids == {W.obj[items[k]].id : k \in DOMAIN items}
  IN IF Fails(W, fail) \/ \E i \in ids : i = None \/ ~W.remote[i].present
     THEN raise(W1, "RemoteError")
     ELSE [W1 EXCEPT !.remote = [i \in Ids |->
                        IF i \in Below(W.remote, ids, MaxId) THEN NoRecord ELSE @[i]]]

\* remove that raises only when none of the named items is in the list
remove_any_present(W, c, items, fail) ==
  IF ~check_exists(W, c) THEN raise(W, "NotYetCreated")
  ELSE IF Len(items) > 0 /\ ~W.obj[c].loaded
       THEN raise(W, "TypeError")
  ELSE IF Len(items) > 0
          /\ \A k \in DOMAIN items : ~contains(W, W.obj[c].items, items[k])
       THEN raise(W, "NotInCollection")
  ELSE LET W1 == data_delete(W, items, fail)
       IN IF W1.err # "" THEN W1
          ELSE [W1 EXCEPT !.obj[c].loaded = FALSE, !.obj[c].items = <<>>]

\* BaseCollection.remove
remove(W, c, items, fail) ==
  IF ~check_exists(W, c) THEN raise(W, "NotYetCreated")
  ELSE IF Len(items) > 0 /\ ~W.obj[c].loaded
       THEN raise(W, "TypeError")     \* `item not in None`
  ELSE IF \E k \in DOMAIN items : ~contains(W, W.obj[c].items, items[k])
       THEN raise(W, "NotInCollection")
  ELSE LET W1 == data_delete(W, items, fail)
       IN IF W1.err # "" THEN W1
          ELSE [W1 EXCEPT !.obj[c].loaded = FALSE, !.obj[c].items = <<>>]

\* api.core.update(self): one remote call; it fails, or returns the instance
\* built from the response, which echoes the fields sent and may or may not
\* carry a 'children' block
core_update(W, o, fail, withChildren) ==
  LET i == W.obj[o].id
      W1 == [W EXCEPT !.calls = Append(@, Call("update", o))]
  IN IF Fails(W, fail) \/ ~W.remote[i].present
     THEN raise(W1, "RemoteError")
     ELSE IF IsCollectionKind(W.obj[o].kind)
          THEN LET W2 == collection_from_dict(W1, i, withChildren)
               IN [W2 EXCEPT !.ret.parent = W.obj[o].parent,
                             !.ret.dataset = W.obj[o].dataset,
                             !.ret.state = W.obj[o].state]
          ELSE [W1 EXCEPT !.ret = [W.obj[o] EXCEPT !.loaded = FALSE, !.items = <<>>]]

\* _update_self(self, updated)
update_self(W, o, updated) ==
  IF W.obj[o].id # updated.id THEN raise(W, "CannotUpdate")
  ELSE [W EXCEPT !.obj[o] = dict_update(@, updated)]

\* BaseDataNode.update
update(W, o, fail, withChildren) ==
  IF ~check_exists(W, o) THEN raise(W, "NotYetCreated")
  ELSE LET W1 == core_update(W, o, fail, withChildren)
       IN IF W1.err # "" THEN W1 ELSE update_self(W1, o, W1.ret)

\* api.core.delete(self): one remote call; it fails, or the store drops the
\* record and everything beneath it
core_delete(W, o, fail) ==
  LET i == W.obj[o].id
      W1 == [W EXCEPT !.calls = Append(@, Call("delete", o))]
  IN IF Fails(W, fail) \/ i = None \/ ~W.remote[i].present
     THEN raise(W1, "RemoteError")
     ELSE [W1 EXCEPT !.remote = [j \in Ids |->
                        IF j \in Below(W.remote, {i}, MaxId) THEN NoRecord ELSE @[j]]]

\* delete without its _check_exists
delete_unchecked(W, o, fail) ==
  LET W1 == core_delete(W, o, fail)
  IN IF W1.err # "" THEN W1 ELSE [W1 EXCEPT !.obj[o].id = None]

\* BaseDataNode.delete
delete(W, o, fail) ==
  IF ~check_exists(W, o) THEN raise(W, "NotYetCreated")
  ELSE LET W1 == core_delete(W, o, fail)
       IN IF W1.err # "" THEN W1 ELSE [W1 EXCEPT !.obj[o].id = None]

\* BaseDataNode.set_ready: the state is assigned, then update is called
set_ready(W, o, fail, withChildren) ==
  update([W EXCEPT !.obj[o].state = "READY"], o, fail, withChildren)

\* BaseDataNode.set_unavailable
set_unavailable(W, o, fail, withChildren) ==
  IF ~check_exists(W, o) THEN raise(W, "NotYetCreated")
  ELSE update([W EXCEPT !.obj[o].state = "UNAVAILABLE"], o, fail, withChildren)

\* BaseDataNode.set_error
set_error(W, o, fail, withChildren) ==
  IF ~check_exists(W, o) THEN raise(W, "NotYetCreated")
  ELSE update([W EXCEPT !.obj[o].state = "ERROR"], o, fail, withChildren)

\* ------------------------------------------------------------ the start
Built == 2..(NumBuilt + 1)

\* What the caller holds at the start besides the first Dataset: instances
\* built locally and not created yet, Collections and DataPackages in turn.
StartKind(o) == IF o % 2 = 0 THEN "Collection" ELSE "DataPackage"

DatasetRecord ==
  [present |-> TRUE, hasTag |-> FALSE, tag |-> <<>>, parent |-> None, dataset |-> None,
   state |-> ""]

\* Datasets take the ids 1..nd; with pre, the store also holds a Collection
\* of dataset 1 that no instance stands for yet
StartRemote(nd, pre) ==
  [i \in Ids |->
     IF i <= nd THEN DatasetRecord
     ELSE IF pre /\ i = nd + 1
          THEN [present |-> TRUE, hasTag |-> TRUE, tag |-> words.Collection,
                parent |-> None, dataset |-> 1, state |-> ""]
          ELSE NoRecord]

NoRun == [n |-> 0, f |-> 0, l |-> FALSE, afterRemove |-> FALSE]

NoCall == [op |-> "", recv |-> None, args |-> <<>>, err |-> "", calls |-> <<>>]

NoData == [hasContent |-> FALSE, content |-> [hasTag |-> FALSE, tag |-> <<>>],
           hasTag |-> FALSE, tag |-> <<>>]

GraphInit ==
  \E pre \in BOOLEAN :
    LET nd == 1
        rem == StartRemote(nd, pre)
    IN /\ remote = rem
       /\ nextId = nd + (IF pre THEN 2 ELSE 1)
       /\ obj = [o \in Slots |->
                  IF o = 1 THEN node_of_record(rem, 1)
                  ELSE IF o \in Built
                       THEN init_node(StartKind(o))
                       ELSE DeadObj]
       /\ last = NoCall
       /\ run = [o \in Objs |-> NoRun]
       /\ steps = 0

\* no record handed to from_dict, nothing built
NoWire == [cls |-> "", keys |-> {}, id |-> None, parent |-> "absent", parentId |-> None,
           pid |-> FALSE]
NoBuilt == [done |-> FALSE, err |-> "", kwargs |-> {}, attrs |-> {}, ids |-> <<>>]
ConstructIdle == wire = NoWire /\ constructed = NoBuilt
\* an empty dict
EmptyDict == <<>>
NoProperty == [key |-> "", value |-> [type |-> "", text |-> ""], data_type |-> "",
               fixed |-> FALSE, hidden |-> FALSE, category |-> ""]
NoPCall == [op |-> "", err |-> "", pushed |-> FALSE, n |-> 0, args |-> <<>>]
StoreIdle == pnode = [exists |-> FALSE, properties |-> EmptyDict] /\ pcall = NoPCall
PropertyIdle == prop = NoProperty /\ echo = NoProperty
NoOutcome == [err |-> "", at |-> <<>>]
\* no get_item_path call under way
NoWalk == [item |-> None, at |-> DeadObj, below |-> <<>>, lookups |-> <<>>,
           path |-> <<>>, done |-> FALSE]
MergeIdle == acc = EmptyDict /\ folded = <<>> /\ mres = NoOutcome /\ walk = NoWalk
SideIdle == ConstructIdle /\ StoreIdle /\ PropertyIdle /\ MergeIdle

Init == GraphInit /\ data = NoData /\ resolved = "" /\ SideIdle

\* ------------------------------------------------------------ the calls
Live == {o \in Objs : obj[o].live}
Collections == {o \in Live : IsCollectionKind(obj[o].kind)}

\* the argument lists of add and remove: instances that are not Datasets (a
\* Dataset is a root, never a child)
Addable == {o \in Live : obj[o].kind # "Dataset"}
ArgLists == UNION {[1..n -> Addable] : n \in 0..MaxArgs}

InArgs(o, args) == \E k \in DOMAIN args : args[k] = o

Gets(calls) == Cardinality({k \in DOMAIN calls : calls[k].verb = "get"})

\* the reads of o.items in a row: how many (n), how many fetches they issued
\* (f), whether _items was loaded at the first of them (l), and whether the
\* call on o before them was a remove that succeeded; both counts stop at 2
run_after(W, op, c, args, o) ==
  IF op = "items" /\ o = c /\ W.err = ""
  THEN [n |-> Min(run[o].n + 1, 2),
        f |-> Min(run[o].f + Gets(W.calls), 2),
        l |-> IF run[o].n = 0 THEN obj[o].loaded ELSE run[o].l,
        afterRemove |-> run[o].afterRemove]
  ELSE IF o = c \/ InArgs(o, args)
       THEN [NoRun EXCEPT !.afterRemove = (op = "remove" /\ o = c /\ W.err = "")]
       ELSE run[o]

\* An instance the caller holds no name for (it was built by a fetch, and the
\* last call did not name it) and that no child list holds any more is
\* garbage: its slot is free again.
Collect(objs, c, args) ==
  [o \in Slots |->
     IF o \in Objs \ (Built \cup {1})
        /\ o # c /\ ~InArgs(o, args)
        /\ ~\E p \in Objs : objs[p].live /\ p # o
                             /\ \E k \in DOMAIN objs[p].items : objs[p].items[k] = o
     THEN DeadObj
     ELSE objs[o]]

\* the call has returned or raised: what it left behind
Commit(W, op, c, args) ==
  /\ steps' = steps + 1
  /\ obj' = Collect(W.obj, c, args)
  /\ remote' = W.remote
  /\ nextId' = W.nextId
  /\ last' = [op |-> op, recv |-> c, args |-> args, err |-> W.err, calls |-> W.calls]
  /\ run' = [o \in Objs |-> IF obj'[o].live THEN run_after(W, op, c, args, o) ELSE NoRun]
  /\ UNCHANGED <<resolverVars, sideVars>>

\* the store can still name every item of args that has no id
IdsLeft(args) ==
  nextId + Cardinality({o \in Live : InArgs(o, args) /\ obj[o].id = None}) <= MaxId + 1

\* the pool can hold the children a fetch of o would build
RoomFor(o) ==
  obj[o].id # None =>
    Cardinality(ChildIds(remote, obj[o].id)) <= Cardinality(Objs \ Live)

\* each call below is made by a caller that holds the instances: the
\* receiver, the arguments and the store's answer (fail: which of the
\* call's requests is refused, 0 for none) are the caller's and the store's
Add ==
  /\ steps < MaxCalls
  /\ \E c \in Collections, args \in ArgLists, fail \in 0..MaxArgs :
       /\ fail <= Len(args) /\ ~InArgs(c, args)
       /\ IdsLeft(args)
       /\ Len(obj[c].items) + Len(args) <= MaxItems
       /\ Commit(add(World, c, args, fail), "add", c, args)

Remove ==
  /\ steps < MaxCalls
  /\ \E c \in Collections, args \in ArgLists, fail \in 0..1 :
       Commit(remove(World, c, args, fail), "remove", c, args)

Items ==
  /\ steps < MaxCalls
  /\ \E c \in Collections, fail \in 0..1 :
       /\ obj[c].loaded \/ RoomFor(c)
       /\ Commit(items_read(World, c, fail), "items", c, <<>>)

Update ==
  /\ steps < MaxCalls
  /\ \E o \in Live, fail \in 0..1, withChildren \in BOOLEAN :
       /\ withChildren /\ IsCollectionKind(obj[o].kind) => RoomFor(o)
       /\ Commit(update(World, o, fail, withChildren), "update", o, <<>>)

Delete ==
  /\ steps < MaxCalls
  /\ \E o \in Live, fail \in 0..1 :
       Commit(delete(World, o, fail), "delete", o, <<>>)

\* one of set_ready, set_unavailable, set_error called on o
SetState ==
  /\ steps < MaxCalls
  /\ \E m \in {"set_ready", "set_unavailable", "set_error"}, o \in Live, fail \in 0..1,
        withChildren \in BOOLEAN :
       /\ withChildren /\ IsCollectionKind(obj[o].kind) => RoomFor(o)
       /\ Commit(IF m = "set_ready" THEN set_ready(World, o, fail, withChildren)
                 ELSE IF m = "set_unavailable" THEN set_unavailable(World, o, fail, withChildren)
                 ELSE set_error(World, o, fail, withChildren),
                 m, o, <<>>)

\* the class's from_dict applied by a caller to the store's record of a
\* Collection or Dataset, with or without its 'children' block; the caller
\* holds the instance returned
FromDict ==
  /\ steps < MaxCalls
  /\ \E i \in Ids, withChildren \in BOOLEAN :
       /\ remote[i].present
       /\ IsCollectionKind(get_package_class(wire_of(remote[i])))
       /\ Cardinality(Objs \ Live) >=
            1 + (IF withChildren THEN Cardinality(ChildIds(remote, i)) ELSE 0)
       /\ LET W1 == collection_from_dict(World, i, withChildren)
              item == FreeSlots(W1)[1]
          IN Commit([W1 EXCEPT !.obj[item] = W1.ret],
                    IF withChildren THEN "from_dict_children" ELSE "from_dict", item, <<>>)

Next == Add \/ Remove \/ Items \/ Update \/ Delete \/ FromDict \/ SetState

Spec == Init /\ [][Next]_vars

\* ------------------------------------------------- entity construction
\* identifiers and wire keys, as sequences of characters
\* each identifier and wire key of models.py used here, by its spelling
ident ==
  [self |-> <<"s","e","l","f">>,
   id |-> <<"i","d">>,
   name |-> <<"n","a","m","e">>,
   type |-> <<"t","y","p","e">>,
   parent |-> <<"p","a","r","e","n","t">>,
   owner_id |-> <<"o","w","n","e","r","_","i","d">>,
   dataset_id |-> <<"d","a","t","a","s","e","t","_","i","d">>,
   provenance_id |-> <<"p","r","o","v","e","n","a","n","c","e","_","i","d">>,
   kwargs |-> <<"k","w","a","r","g","s">>,
   args |-> <<"a","r","g","s">>,
   package_type |-> <<"p","a","c","k","a","g","e","_","t","y","p","e">>,
   description |-> <<"d","e","s","c","r","i","p","t","i","o","n">>,
   k |-> <<"k">>,
   s3_key |-> <<"s","3","_","k","e","y">>,
   s3_bucket |-> <<"s","3","_","b","u","c","k","e","t">>,
   file_type |-> <<"f","i","l","e","_","t","y","p","e">>,
   size |-> <<"s","i","z","e">>,
   pkg_id |-> <<"p","k","g","_","i","d">>,
   email |-> <<"e","m","a","i","l">>,
   first_name |-> <<"f","i","r","s","t","_","n","a","m","e">>,
   last_name |-> <<"l","a","s","t","_","n","a","m","e">>,
   credential |-> <<"c","r","e","d","e","n","t","i","a","l">>,
   photo_url |-> <<"p","h","o","t","o","_","u","r","l">>,
   url |-> <<"u","r","l">>,
   authy_id |-> <<"a","u","t","h","y","_","i","d">>,
   accepted_terms |-> <<"a","c","c","e","p","t","e","d","_","t","e","r","m","s">>,
   color |-> <<"c","o","l","o","r">>,
   is_super_admin |-> <<"i","s","_","s","u","p","e","r","_","a","d","m","i","n">>,
   state |-> <<"s","t","a","t","e">>,
   created_at |-> <<"c","r","e","a","t","e","d","_","a","t">>,
   updated_at |-> <<"u","p","d","a","t","e","d","_","a","t">>,
   dataset |-> <<"d","a","t","a","s","e","t">>,
   u_properties |-> <<"_","p","r","o","p","e","r","t","i","e","s">>,
   storage |-> <<"s","t","o","r","a","g","e">>,
   u_items |-> <<"_","i","t","e","m","s">>,
   session |-> <<"s","e","s","s","i","o","n">>,
   local_path |-> <<"l","o","c","a","l","_","p","a","t","h">>,
   createdAt |-> <<"c","r","e","a","t","e","d","A","t">>,
   updatedAt |-> <<"u","p","d","a","t","e","d","A","t">>,
   preferredOrganization |-> <<"p","r","e","f","e","r","r","e","d","O","r","g","a","n","i","z","a","t","i","o","n">>,
   s3key |-> <<"s","3","k","e","y">>,
   S3Key |-> <<"S","3","K","e","y">>,
   s3Key |-> <<"s","3","K","e","y">>,
   s3bucket |-> <<"s","3","b","u","c","k","e","t">>,
   fileType |-> <<"f","i","l","e","T","y","p","e">>,
   packageType |-> <<"p","a","c","k","a","g","e","T","y","p","e">>,
   firstName |-> <<"f","i","r","s","t","N","a","m","e">>,
   lastName |-> <<"l","a","s","t","N","a","m","e">>,
   weirdField |-> <<"w","e","i","r","d","F","i","e","l","d">>]


RECURSIVE camel(_, _)
\* re.sub(r'[A-Z]', lambda x: '_' + x.group(0).lower(), k), from position i
camel(k, i) ==
  IF i > Len(k) THEN <<>>
  ELSE (IF (\E j \in DOMAIN UpperCase : UpperCase[j] = k[i]) THEN <<"_", LowerChar(k[i])>> ELSE <<k[i]>>) \o camel(k, i + 1)

RECURSIVE camel_num(_, _)
\* re.sub(r'[0-9]', lambda x: x.group(0) + '_', k), from position i
camel_num(k, i) ==
  IF i > Len(k) THEN <<>>
  ELSE (IF k[i] \in {"0","1","2","3","4","5","6","7","8","9"} THEN <<k[i], "_">> ELSE <<k[i]>>) \o camel_num(k, i + 1)

k_lower(k) == lower(k)
k_camel(k) == camel(k, 1)
k_camel_num(k) == camel_num(k, 1)

\* the classes from_dict is applied to here
Classes == {"File", "Collection", "Dataset", "DataPackage", "User"}
DataNodeClasses == {"File", "Collection", "Dataset", "DataPackage"}

\* co_varnames of each __init__
varnames(c) ==
  CASE c = "BaseNode" -> {ident.self, ident.id}
    [] c = "BaseDataNode" -> {ident.self, ident.name, ident.type, ident.parent, ident.owner_id, ident.dataset_id, ident.id, ident.provenance_id, ident.kwargs}
    [] c = "BaseCollection" -> {ident.self, ident.name, ident.package_type, ident.kwargs}
    [] c = "Collection" -> {ident.self, ident.name, ident.kwargs}
    [] c = "Dataset" -> {ident.self, ident.name, ident.description, ident.kwargs, ident.k}
    [] c = "DataPackage" -> {ident.self, ident.name, ident.package_type, ident.kwargs}
    [] c = "File" -> {ident.self, ident.name, ident.s3_key, ident.s3_bucket, ident.file_type, ident.size, ident.pkg_id, ident.kwargs}
    [] c = "User" -> {ident.self, ident.email, ident.first_name, ident.last_name, ident.credential, ident.photo_url, ident.url, ident.authy_id, ident.accepted_terms, ident.color, ident.is_super_admin, ident.args, ident.kwargs}

\* _get_all_class_args: the argument names of the class and of its bases
get_all_class_args(cls) ==
  IF cls = "User" THEN varnames("BaseNode") \cup varnames("User")
  ELSE varnames("BaseNode") \cup varnames("BaseDataNode") \cup
       (IF cls = "File" THEN varnames("File")
        ELSE IF cls = "DataPackage" THEN varnames("DataPackage")
        ELSE varnames("BaseCollection") \cup
             (IF cls = "Dataset" THEN varnames("Dataset") ELSE varnames("Collection")))

\* BaseNode.from_dict, the matching of one wire key (lines 171-178)
reconcile(cls, k) ==
  LET class_args == get_all_class_args(cls)
  IN IF k_lower(k) \in class_args THEN k_lower(k)
     ELSE IF k_camel(k) \in class_args THEN k_camel(k)
     ELSE IF k_camel_num(k) \in class_args THEN k_camel_num(k)
     ELSE k

\* the attributes BaseNode.__init__ and BaseDataNode.__init__ assign
attrs_BaseNode == {ident.id}
attrs_BaseDataNode ==
  attrs_BaseNode \cup
  {ident.name, ident.u_properties, ident.parent, ident.type, ident.dataset, ident.owner_id, ident.provenance_id, ident.state, ident.created_at, ident.updated_at}

\* BaseDataNode.__init__(name, type, **kwargs) called by a subclass: type
\* is given by the subclass, so a 'type' among kwargs is a second value for
\* it; the other kwargs are taken as arguments, popped, or left in kwargs
init_BaseDataNode(kwargs) ==
  IF ident.type \in kwargs
  THEN [err |-> "TypeError", attrs |-> {}]
  ELSE [err |-> "", attrs |-> attrs_BaseDataNode]

\* cls.__init__(item, **kwargs): the exception raised ("" for none) and the
\* names in the instance's __dict__ afterwards
init(cls, kwargs) ==
  IF cls = "File" THEN
    IF ~({ident.name, ident.s3_key, ident.s3_bucket, ident.file_type, ident.size} \subseteq kwargs)
    THEN [err |-> "TypeError", attrs |-> {}]
    ELSE LET r == init_BaseDataNode(kwargs \ varnames("File"))
         IN [r EXCEPT !.attrs = IF r.err = "" THEN @ \cup {ident.s3_key, ident.s3_bucket, ident.size, ident.pkg_id, ident.local_path} ELSE @]
  ELSE IF cls = "DataPackage" THEN
    IF ~({ident.name, ident.package_type} \subseteq kwargs)
    THEN [err |-> "TypeError", attrs |-> {}]
    ELSE LET r == init_BaseDataNode(kwargs \ (varnames("DataPackage") \cup {ident.storage}))
         IN [r EXCEPT !.attrs = IF r.err = "" THEN @ \cup {ident.storage, ident.session} ELSE @]
  ELSE IF cls = "Collection" THEN
    IF ident.name \notin kwargs
    THEN [err |-> "TypeError", attrs |-> {}]
    ELSE LET r == init_BaseDataNode(kwargs \ (varnames("BaseCollection") \cup {ident.storage}))
         IN [r EXCEPT !.attrs = IF r.err = "" THEN @ \cup {ident.storage, ident.u_items} ELSE @]
  ELSE IF cls = "Dataset" THEN
    IF ident.name \notin kwargs
    THEN [err |-> "TypeError", attrs |-> {}]
    ELSE LET r == init_BaseDataNode(kwargs \ (varnames("BaseCollection") \cup {ident.storage, ident.description}))
         IN [r EXCEPT !.attrs =
               IF r.err = ""
               THEN (@ \cup {ident.storage, ident.u_items, ident.description})
                    \ {ident.parent, ident.type, ident.state, ident.dataset}
               ELSE @]
  ELSE \* User: what is left in kwargs goes to BaseNode.__init__(self, id=None)
    IF ~({ident.email, ident.first_name, ident.last_name} \subseteq kwargs)
    THEN [err |-> "TypeError", attrs |-> {}]
    ELSE IF (kwargs \ (varnames("User") \cup {ident.preferredOrganization, ident.storage})) \subseteq {ident.id}
    THEN [err |-> "", attrs |-> attrs_BaseNode \cup (varnames("User") \ {ident.self, ident.args, ident.kwargs}) \cup {ident.storage}]
    ELSE [err |-> "TypeError", attrs |-> {}]

\* BaseNode.from_dict, then for a data node BaseDataNode.from_dict: the
\* state of the content and the record's parent entry are assigned
\* thing_id = content.pop('id', None) (line 161) takes the id out of the
\* record's content before the keys are matched, and the nested parent
\* record goes through from_dict in turn (line 456), which takes its id out
\* too; id and parent are the values the instance ends with (None: no id),
\* data is the record as the call leaves it
from_dict(cls, rec) ==
  LET kwargs == {reconcile(cls, k) : k \in rec.keys \ {ident.id}}
      r == init(cls, kwargs)
      nested == r.err = "" /\ cls \in DataNodeClasses /\ rec.parent = "record"
  IN [done |-> TRUE, err |-> r.err, kwargs |-> kwargs,
      attrs |-> IF r.err # "" \/ cls \notin DataNodeClasses THEN r.attrs
                ELSE r.attrs \cup (IF ident.state \in rec.keys THEN {ident.state} ELSE {})
                             \cup (IF rec.parent # "absent" THEN {ident.parent} ELSE {}),
      id |-> IF r.err = "" /\ ident.id \in rec.keys THEN rec.id ELSE None,
      parent |-> IF r.err # "" \/ cls \notin DataNodeClasses \/ rec.parent = "absent" THEN None
                 ELSE IF rec.parent = "id" \/ rec.pid THEN rec.parentId
                 ELSE None,
      data |-> [rec EXCEPT !.keys = @ \ {ident.id},
                           !.pid = IF nested THEN FALSE ELSE @]]

\* Dataset(name) built locally
local_Dataset == init("Dataset", {ident.name})

\* the keys every record of a class carries besides those under test
BaseKeys(cls) ==
  IF cls = "File" THEN {ident.name, ident.s3bucket, ident.fileType, ident.size}
  ELSE IF cls = "User" THEN {ident.email, ident.firstName, ident.lastName}
  ELSE IF cls = "Dataset" THEN {ident.name}
  ELSE {ident.name, ident.packageType}

\* the keys under test: the three spellings of the storage key, an unknown
\* key, and two keys the constructors pop
OptionalKeys == {ident.s3key, ident.S3Key, ident.s3Key, ident.weirdField, ident.state, ident.createdAt}

\* a record of an entity of the platform: its content carries the id, and
\* so does the content of a nested parent record
WireInputs ==
  {[cls |-> c, keys |-> {ident.id} \cup BaseKeys(c) \cup opt, id |-> 2,
    parent |-> p, parentId |-> 1, pid |-> (p = "record")] :
     c \in Classes,
     opt \in {o \in SUBSET OptionalKeys : Cardinality(o) <= MaxExtra},
     p \in {"absent", "id", "record"}}

ConstructInit ==
  /\ GraphInit /\ data = NoData /\ resolved = ""
  /\ wire \in WireInputs /\ constructed = NoBuilt
  /\ StoreIdle /\ PropertyIdle /\ MergeIdle

\* cls.from_dict(data) called by the holder of the record, who may call it
\* again on the same record
Construct ==
  /\ Len(constructed.ids) < MaxBuilds
  /\ \E r \in {from_dict(wire.cls, wire)} :
        /\ constructed' = [done |-> TRUE, err |-> r.err, kwargs |-> r.kwargs, attrs |-> r.attrs,
                           ids |-> Append(constructed.ids, [id |-> r.id, parent |-> r.parent])]
        /\ wire' = r.data
  /\ UNCHANGED <<graphVars, resolverVars, storeVars, propertyVars, mergeVars>>

ConstructNext == Construct

SpecConstruct == ConstructInit /\ [][ConstructNext]_vars

\* ---------------------------------------------------------- properties
\* Property._data_types
data_types == {"string", "integer", "double", "date", "user", "boolean"}

\* a Python value: its runtime type and its text under str()
Values ==
  {[type |-> "string", text |-> "a"], [type |-> "string", text |-> "7"],
   [type |-> "integer", text |-> "7"], [type |-> "double", text |-> "1.5"],
   [type |-> "boolean", text |-> "True"], [type |-> "date", text |-> "2020-01-01"],
   [type |-> "user", text |-> "a"]}

\* str(value)
str(value) == [type |-> "string", text |-> value.text]

\* utils.get_data_type: the data type inferred from the value's runtime type
get_data_type(value) == [dt |-> value.type, v |-> value]

\* utils.value_as_type: the value read as the given type
value_as_type(value, dtype) == [type |-> dtype, text |-> value.text]

\* data_type.lower() for the spellings drawn here
lower_data_type(dt) == IF dt = "String" THEN "string" ELSE dt

\* Property.__init__ ("" is data_type=None)
Property_init(key, value, fixed, hidden, category, data_type) ==
  IF data_type = "" \/ lower_data_type(data_type) \notin data_types
  THEN [key |-> key, value |-> get_data_type(value).v,
        data_type |-> get_data_type(value).dt,
        fixed |-> fixed, hidden |-> hidden, category |-> category]
  ELSE [key |-> key, value |-> value_as_type(value, lower_data_type(data_type)),
        data_type |-> data_type,
        fixed |-> fixed, hidden |-> hidden, category |-> category]

\* Property.as_dict
Property_as_dict(self) ==
  [key |-> self.key, value |-> str(self.value), dataType |-> self.data_type,
   fixed |-> self.fixed, hidden |-> self.hidden, category |-> self.category]

\* Property.from_dict(data, category): the category is the argument's
Property_from_dict(d, category) ==
  Property_init(d.key, d.value, d.fixed, d.hidden, category, d.dataType)

PropKeys == {"k1", "k2"}
Categories == {"Blackfynn", "Custom"}

\* the Property objects a caller builds
PropertyInputs ==
  {Property_init(k, v, f, h, c, dt) :
     k \in PropKeys, v \in Values, f \in BOOLEAN, h \in BOOLEAN, c \in Categories,
     dt \in {"", "String", "bogus"} \cup data_types}

PropertyInit ==
  /\ GraphInit /\ data = NoData /\ resolved = "" /\ ConstructIdle /\ StoreIdle
  /\ MergeIdle
  /\ prop \in PropertyInputs /\ echo = NoProperty

\* Property.from_dict(prop.as_dict())
RoundTrip ==
  /\ echo = NoProperty
  /\ echo' = Property_from_dict(Property_as_dict(prop), "Blackfynn")
  /\ UNCHANGED <<prop, graphVars, resolverVars, constructVars, storeVars, mergeVars>>

PropertyNext == RoundTrip

SpecProperty == PropertyInit /\ [][PropertyNext]_vars

\* d[k] = v on a dict
dict_put(d, k, v) == [x \in DOMAIN d \cup {k} |-> IF x = k THEN v ELSE d[x]]
\* d.pop(k)
dict_pop(d, k) == [x \in DOMAIN d \ {k} |-> d[x]]

RECURSIVE set_properties_fresh_category(_, _, _)
\* _set_properties assigning the category a dict of the one entry
set_properties_fresh_category(properties, entries, i) ==
  IF i > Len(entries) THEN properties
  ELSE LET entry == entries[i]
           p2 == dict_put(properties, entry.category, dict_put(EmptyDict, entry.key, entry))
       IN set_properties_fresh_category(p2, entries, i + 1)

RECURSIVE set_properties(_, _, _)
\* BaseDataNode._set_properties, from entry i on
set_properties(properties, entries, i) ==
  IF i > Len(entries) THEN properties
  ELSE LET entry == entries[i]
           p1 == IF entry.category \notin DOMAIN properties
                 THEN dict_put(properties, entry.category, EmptyDict)
                 ELSE properties
           p2 == dict_put(p1, entry.category, dict_put(p1[entry.category], entry.key, entry))
       IN set_properties(p2, entries, i + 1)

\* BaseDataNode.add_properties: the node and the outcome
add_properties(node, entries) ==
  [node |-> [node EXCEPT !.properties = set_properties(@, entries, 1)],
   err |-> "", pushed |-> node.exists]

\* BaseDataNode.set_property
set_property(node, key, value, fixed, hidden, category, data_type) ==
  [node |-> [node EXCEPT !.properties =
               set_properties(@, <<Property_init(key, value, fixed, hidden, category, data_type)>>, 1)],
   err |-> "", pushed |-> node.exists]

\* BaseDataNode.properties: the entries of every category, flattened
properties(node) ==
  {node.properties[c][k] : <<c, k>> \in
     {ck \in Categories \X PropKeys :
        ck[1] \in DOMAIN node.properties /\ ck[2] \in DOMAIN node.properties[ck[1]]}}

\* BaseDataNode.remove_property: the entry's value is set to "", then
\* update_properties makes its one remote call (api.data.update_properties),
\* which raises when fail, and only after it the entry is popped
remove_property(node, key, category, fail) ==
  IF category \notin DOMAIN node.properties
  THEN [node |-> node, err |-> "KeyError", pushed |-> FALSE]
  ELSE IF key \in DOMAIN node.properties[category]
  THEN LET blank == [node EXCEPT !.properties[category][key].value =
                                   [type |-> "string", text |-> ""]]
       IN IF fail THEN [node |-> blank, err |-> "RemoteError", pushed |-> TRUE]
          ELSE [node |-> [blank EXCEPT !.properties[category] = dict_pop(@, key)],
                err |-> "", pushed |-> TRUE]
  ELSE [node |-> node, err |-> "", pushed |-> FALSE]

StoreInit ==
  /\ GraphInit /\ data = NoData /\ resolved = "" /\ ConstructIdle /\ PropertyIdle
  /\ MergeIdle
  /\ pnode \in {[exists |-> e, properties |-> EmptyDict] : e \in BOOLEAN}
  /\ pcall = NoPCall

\* the values callers set here
SetValues == {[type |-> "string", text |-> "a"], [type |-> "integer", text |-> "7"]}

StoreCommit(op, r, args) ==
  /\ pcall.n < MaxPropCalls
  /\ pnode' = r.node
  /\ pcall' = [op |-> op, err |-> r.err, pushed |-> r.pushed, n |-> pcall.n + 1,
               args |-> args]
  /\ UNCHANGED <<graphVars, resolverVars, constructVars, propertyVars, mergeVars>>

SetProperty(key, value, fixed, category) ==
  StoreCommit("set_property", set_property(pnode, key, value, fixed, FALSE, category, ""),
              <<Property_init(key, value, fixed, FALSE, category, "")>>)

AddProperties(entries) ==
  StoreCommit("add_properties", add_properties(pnode, entries), entries)

RemoveProperty(key, category, fail) ==
  StoreCommit("remove_property", remove_property(pnode, key, category, fail),
              <<[NoProperty EXCEPT !.key = key, !.category = category]>>)

\* the Property objects handed to add_properties
Entries == {Property_init(k, v, FALSE, FALSE, c, "") : k \in PropKeys, v \in SetValues, c \in Categories}
EntryLists == UNION {[1..n -> Entries] : n \in 0..MaxEntries}

StoreNext ==
  \/ \E k \in PropKeys, v \in SetValues, f \in BOOLEAN, c \in Categories : SetProperty(k, v, f, c)
  \/ \E es \in EntryLists : AddProperties(es)
  \/ \E k \in PropKeys, c \in Categories, fail \in BOOLEAN : RemoveProperty(k, c, fail)

SpecStore == StoreInit /\ [][StoreNext]_vars

\* --------------------------------------------------------- path trees
\* A tree is a dict from ids to values; a value is a sub-dict or a leaf, the
\* node itself.  The nodes of a path were fetched, so each has an id, and a
\* node is written as its id: __eq__ of two existing nodes compares ids.
Leaf(n) == [isDict |-> FALSE, sub |-> EmptyDict, node |-> n]
Dict(t) == [isDict |-> TRUE, sub |-> t, node |-> None]

RECURSIVE make_tree(_)
\* cli_utils.make_tree
make_tree(path) ==
  LET value == IF Len(path) = 1 THEN Leaf(path[1]) ELSE Dict(make_tree(Tail(path)))
  IN dict_put(EmptyDict, path[1], value)

\* a[key] == b[key] for two values that are not both dicts: two nodes are
\* compared by BaseNode.__eq__; a node against a dict ends in
\* BaseNode.__eq__(node, dict), which reads dict.exists
leaf_eq(x, y) ==
  IF ~x.isDict /\ ~y.isDict
  THEN [err |-> "", equal |-> x.node = y.node]
  ELSE [err |-> "AttributeError", equal |-> FALSE]

RECURSIVE merge_loop_overwrite(_, _, _, _, _)
\* merge assigning b's value to every key of b, never descending
merge_loop_overwrite(a, b, path, keys, i) ==
  IF i > Len(keys) THEN [tree |-> a, err |-> "", at |-> <<>>]
  ELSE merge_loop_overwrite(dict_put(a, keys[i], b[keys[i]]), b, path, keys, i + 1)

RECURSIVE merge_loop_keep(_, _, _, _, _)
\* merge keeping a's value for every key already in a, never descending
merge_loop_keep(a, b, path, keys, i) ==
  IF i > Len(keys) THEN [tree |-> a, err |-> "", at |-> <<>>]
  ELSE IF keys[i] \in DOMAIN a THEN merge_loop_keep(a, b, path, keys, i + 1)
  ELSE merge_loop_keep(dict_put(a, keys[i], b[keys[i]]), b, path, keys, i + 1)

RECURSIVE merge_loop(_, _, _, _, _)
\* cli_utils.merge, the loop `for key in b` from position i of the keys of b
\* (taken in ascending order)
merge_loop(a, b, path, keys, i) ==
  IF i > Len(keys) THEN [tree |-> a, err |-> "", at |-> <<>>]
  ELSE LET key == keys[i]
       IN IF key \in DOMAIN a
          THEN IF a[key].isDict /\ b[key].isDict
               THEN LET r == merge_loop(a[key].sub, b[key].sub, path \o <<key>>,
                                        SetToSeq(DOMAIN b[key].sub), 1)
                    IN IF r.err # "" THEN [r EXCEPT !.tree = a]
                       ELSE merge_loop(dict_put(a, key, Dict(r.tree)), b, path, keys, i + 1)
               ELSE LET e == leaf_eq(a[key], b[key])
                    IN IF e.err # "" THEN [tree |-> a, err |-> e.err, at |-> <<>>]
                       ELSE IF e.equal THEN merge_loop(a, b, path, keys, i + 1)
                       ELSE [tree |-> a, err |-> "Conflict", at |-> path \o <<key>>]
          ELSE merge_loop(dict_put(a, key, b[key]), b, path, keys, i + 1)

\* cli_utils.merge(a, b)
merge(a, b) == merge_loop(a, b, <<>>, SetToSeq(DOMAIN b), 1)

TreeIds == 1..MaxKey

\* the ownership paths: sequences of distinct ids, root first
Paths ==
  UNION {{p \in [1..n -> TreeIds] : \A i, j \in 1..n : i # j => p[i] # p[j]}
         : n \in 1..MaxPath}

PathTrees == {make_tree(p) : p \in Paths}

\* dicts made by hand whose leaf under a key is another node
ForeignTrees == {dict_put(EmptyDict, 1, Leaf(2)), dict_put(EmptyDict, 2, Leaf(1))}

MergeInit ==
  /\ GraphInit /\ data = NoData /\ resolved = ""
  /\ ConstructIdle /\ StoreIdle /\ PropertyIdle
  /\ acc \in PathTrees
  /\ folded = <<acc>>
  /\ mres = NoOutcome
  /\ walk = NoWalk

\* one step of reduce(merge, trees)
Merge(t) ==
  /\ mres.err = ""
  /\ Len(folded) < MaxTrees
  /\ LET r == merge(acc, t)
     IN /\ acc' = r.tree
        /\ mres' = [err |-> r.err, at |-> r.at]
  /\ folded' = Append(folded, t)
  /\ UNCHANGED <<walk, graphVars, resolverVars, constructVars, storeVars, propertyVars>>

MergeNext == \E t \in PathTrees \cup ForeignTrees : Merge(t)

SpecMerge == MergeInit /\ [][MergeNext]_vars

\* cli_utils.get_item_path(bf, item), one lookup at a time.  bf.get(id) and
\* bf.get_dataset(id) return the instance built from the store's record of
\* that id.  The recursion get_item_path(bf, parent) + [item] is unwound:
\* walk.at is the argument of the innermost call, walk.below the items the
\* outer calls append on return, innermost first.
RECURSIVE ChainEnds(_, _, _)
\* the chain of parent links from id i ends within n links
ChainEnds(par, i, n) ==
  IF par[i] = None THEN TRUE
  ELSE IF n = 0 THEN FALSE
  ELSE ChainEnds(par, par[i], n - 1)

\* the stores get_item_path is run against: the Datasets 1..nd (one or two),
\* and under them data nodes whose parent, if any, is a Collection of the
\* same Dataset, every chain of parents ending at a node with none
PathStores ==
  {rem \in UNION {
    {[i \in Ids |->
        IF i <= nd THEN DatasetRecord
        ELSE [present |-> TRUE, hasTag |-> TRUE, tag |-> tag[i], parent |-> par[i],
              dataset |-> ds[i], state |-> ""]] :
       par \in {p \in [Ids -> {None} \cup Ids] :
                 \A i \in Ids : /\ i <= nd => p[i] = None
                                /\ p[i] # None => p[i] > nd
                                /\ ChainEnds(p, i, MaxId)},
       tag \in {g \in [Ids -> {words.Collection, words.MRI}] :
                 \A i \in Ids : i <= nd => g[i] = words.Collection},
       ds \in {d \in [Ids -> 1..nd] : \A i \in Ids : i <= nd => d[i] = 1}}
    : nd \in 1..2} :
     \A i \in Ids : (rem[i].hasTag /\ rem[i].parent # None) =>
       /\ rem[rem[i].parent].tag = words.Collection
       /\ rem[rem[i].parent].dataset = rem[i].dataset}

PathInit ==
  /\ remote \in PathStores
  /\ nextId = MaxId + 1
  /\ obj = [o \in Slots |-> DeadObj]
  /\ last = NoCall /\ run = [o \in Objs |-> NoRun] /\ steps = 0
  /\ data = NoData /\ resolved = ""
  /\ ConstructIdle /\ StoreIdle /\ PropertyIdle
  /\ acc = EmptyDict /\ folded = <<>> /\ mres = NoOutcome
  /\ \E i \in Ids :
       /\ remote[i].hasTag
       /\ walk = [NoWalk EXCEPT !.item = i, !.at = node_of_record(remote, i)]

\* get_item_path returning [item] + get_item_path(bf, parent)
get_item_path_parent_reversed(w, rem) ==
  [w EXCEPT !.at = node_of_record(rem, w.at.parent),
            !.below = @ \o <<w.at.id>>,
            !.lookups = Append(@, Call("get", w.at.parent))]

\* lines 6-8: item.parent is not None, parent = bf.get(item.parent), and
\* item is appended to what the call on parent returns
get_item_path_parent(w, rem) ==
  [w EXCEPT !.at = node_of_record(rem, w.at.parent),
            !.below = <<w.at.id>> \o @,
            !.lookups = Append(@, Call("get", w.at.parent))]

\* lines 9-11: dataset = bf.get_dataset(item.dataset), return [dataset, item];
\* the outer calls then append their items
get_item_path_dataset(w, rem) ==
  [w EXCEPT !.lookups = Append(@, Call("get_dataset", w.at.dataset)),
            !.path = <<node_of_record(rem, w.at.dataset).id, w.at.id>> \o w.below,
            !.done = TRUE]

GetParent ==
  /\ ~walk.done /\ walk.at.parent # None
  /\ walk' = get_item_path_parent(walk, remote)
  /\ UNCHANGED <<acc, folded, mres, graphVars, resolverVars, constructVars,
                 storeVars, propertyVars>>

GetDataset ==
  /\ ~walk.done /\ walk.at.parent = None
  /\ walk' = get_item_path_dataset(walk, remote)
  /\ UNCHANGED <<acc, folded, mres, graphVars, resolverVars, constructVars,
                 storeVars, propertyVars>>

PathNext == GetParent \/ GetDataset

\* a call that has started keeps running: the function is one thread of
\* control with nothing to wait for but the lookups
SpecPathFair == PathInit /\ [][PathNext]_vars /\ WF_vars(PathNext)

\* -------------------------------------------- the resolver on its own

\* the words the tags are drawn from: the four of the table, a superstring
\* and a prefix of two of them, two unknown types and the empty tag
BaseWords == {words.collection, words.timeseries, words.tabular, words.dataset,
              words.collections, words.data, words.mri, words.frobnicate, <<>>}

\* word with the letters at the positions U in upper case
Cased(word, U) == [i \in DOMAIN word |-> IF i \in U THEN UpperChar(word[i]) ELSE word[i]]

\* every spelling of a base word with at most MaxUpper upper-case letters
TagPool ==
  UNION {{Cased(w, U) : U \in {V \in SUBSET (DOMAIN w) : Cardinality(V) <= MaxUpper}}
         : w \in BaseWords}

NoTag == [hasTag |-> FALSE, tag |-> <<>>]
TagFields == {NoTag} \cup {[hasTag |-> TRUE, tag |-> t] : t \in TagPool}
OuterFields == {NoTag, [hasTag |-> TRUE, tag |-> words.Collection],
                [hasTag |-> TRUE, tag |-> words.dataset]}

\* the wire records handed to the resolver: bare, or with a 'content'
\* envelope beside a packageType of their own
WireRecords ==
  {[hasContent |-> FALSE, content |-> NoTag, hasTag |-> f.hasTag, tag |-> f.tag]
     : f \in TagFields}
  \cup {[hasContent |-> TRUE, content |-> f, hasTag |-> g.hasTag, tag |-> g.tag]
          : f \in TagFields, g \in OuterFields}

ResolveInit == GraphInit /\ data \in WireRecords /\ resolved = "" /\ SideIdle

Resolve ==
  /\ resolved = ""
  /\ resolved' = get_package_class(data)
  /\ UNCHANGED <<data, graphVars, sideVars>>

ResolveNext == Resolve

SpecResolve == ResolveInit /\ [][ResolveNext]_vars

\* ================================================================ claims
\* the call just made (in a step) and what it was made on
Called(op) == steps' = steps + 1 /\ last'.op = op
Deletes(calls) == {k \in DOMAIN calls : calls[k].verb = "delete"}
Creates(calls) == {k \in DOMAIN calls : calls[k].verb = "create"}

\* x is linked under container c: parent and dataset as add sets them
LinkedUnder(x, c) ==
  IF c.kind = "Dataset"
  THEN x.parent = None /\ x.dataset = c.id
  ELSE x.parent = c.id /\ x.dataset = c.dataset

C1_WitnessAfterRemove ==
  \E c \in Objs : obj[c].live /\ run[c].n = 1 /\ run[c].afterRemove /\ run[c].f = 1

\* C2: _items goes from loaded to unloaded only through a remove on that
\* container that succeeded, its remote delete issued; no other call (add,
\* a read of items, update, delete, a remove that failed) unloads it.
C2_OnlyRemoveUnloads ==
  [][\A o \in Objs :
       (obj[o].live /\ obj[o].loaded /\ obj'[o].live /\ ~obj'[o].loaded) =>
         /\ last'.op = "remove" /\ last'.recv = o /\ last'.err = ""
         /\ Deletes(last'.calls) # {}]_vars

\* C3: remove fails if any named item is not in the loaded item list, and
\* then issues no remote delete and leaves _items (and the store) as it was.
C3_RemoveAbsentFails ==
  [][(/\ Called("remove")
      /\ obj[last'.recv].id # None
      /\ \E k \in DOMAIN last'.args :
           ~(obj[last'.recv].loaded
             /\ contains(World, obj[last'.recv].items, last'.args[k])))
     => /\ last'.err # ""
        /\ Deletes(last'.calls) = {}
        /\ obj'[last'.recv].loaded = obj[last'.recv].loaded
        /\ obj'[last'.recv].items = obj[last'.recv].items
        /\ remote' = remote]_vars

\* a remove naming one item that is in the loaded list and one that is not
C3_Witness ==
  /\ last.op = "remove" /\ last.err = "NotInCollection" /\ Len(last.args) = 2
  /\ obj[last.recv].loaded
  /\ contains(World, obj[last.recv].items, last.args[1])
  /\ ~contains(World, obj[last.recv].items, last.args[2])

\* C4: after an add that succeeded, every item added to a Dataset has parent
\* None and dataset the Dataset's id, and every item added to a Collection
\* has parent the Collection's id and dataset the Collection's dataset.
C4_AddLinks ==
  (last.op = "add" /\ last.err = "") =>
    \A k \in DOMAIN last.args : LinkedUnder(obj[last.args[k]], obj[last.recv])

\* an item added to a Collection that itself sits in a Dataset
C4_Witness ==
  /\ last.op = "add" /\ last.err = "" /\ Len(last.args) >= 1
  /\ obj[last.recv].kind = "Collection"
  /\ obj[last.recv].dataset # None
  /\ obj[last.args[1]].parent = obj[last.recv].id
  /\ Creates(last.calls) # {}

\* C5: the items a successful add was given are the last elements of the
\* receiver's items at the read that follows, in the order given, and that
\* read issues no fetch.
C5_ReadYourWrites ==
  [][(/\ last.op = "add" /\ last.err = "" /\ Len(last.args) >= 1
      /\ Called("items") /\ last'.recv = last.recv)
     => /\ last'.err = ""
        /\ last'.calls = <<>>
        /\ LET its == obj'[last.recv].items
               n == Len(last.args)
           IN /\ Len(its) >= n
              /\ \A k \in 1..n : its[Len(its) - n + k] = last.args[k]]_vars

\* the scenario: Dataset D, D.add(C1), C1.add(P1), then C1.items is read:
\* D.items == [C1], C1.items == [P1], P1.dataset == D.id, P1.parent == C1.id
C5_Witness ==
  \E d, c1, p1 \in Objs :
    /\ last.op = "items" /\ last.recv = c1 /\ last.calls = <<>> /\ last.err = ""
    /\ obj[d].kind = "Dataset" /\ obj[d].loaded /\ obj[d].items = <<c1>>
    /\ obj[c1].loaded /\ obj[c1].items = <<p1>>
    /\ obj[p1].dataset = obj[d].id /\ obj[p1].parent = obj[c1].id
    /\ obj[p1].id # None /\ obj[p1].kind = "DataPackage"
    /\ ChildIds(remote, obj[d].id) = {obj[c1].id}

RECURSIVE Under(_, _)
\* the instances reached from the set S through loaded child lists, n levels
Under(S, n) ==
  IF n = 0 THEN S
  ELSE Under(S \cup {x \in Objs : \E p \in S : obj[p].loaded /\ InArgs(x, obj[p].items)},
             n - 1)

\* C6: every created item in the loaded _items of a created container has
\* parent equal to the container's id (None under a Dataset), and dataset
\* equal to the id of the Dataset it is reached from through child lists.
C6_LinkageInvariant ==
  /\ \A c \in Objs :
       (obj[c].live /\ obj[c].id # None /\ obj[c].loaded) =>
         \A k \in DOMAIN obj[c].items :
           LET x == obj[c].items[k]
           IN (x # c /\ obj[x].id # None /\ obj[x].kind # "Dataset") =>
                obj[x].parent = (IF obj[c].kind = "Dataset" THEN None ELSE obj[c].id)
  /\ \A d \in Objs :
       (obj[d].live /\ obj[d].kind = "Dataset" /\ obj[d].id # None) =>
         \A x \in Under({d}, MaxObj) \ {d} :
           (obj[x].id # None /\ obj[x].kind # "Dataset") => obj[x].dataset = obj[d].id

\* C7: add on a receiver with no id fails before anything happens: no
\* remote call, no item's fields changed, the receiver unchanged.
C7_AddOnPhantomFails ==
  [][(Called("add") /\ obj[last'.recv].id = None)
     => /\ last'.err = "NotYetCreated"
        /\ last'.calls = <<>>
        /\ obj'[last'.recv] = obj[last'.recv]
        /\ \A k \in DOMAIN last'.args : obj'[last'.args[k]] = obj[last'.args[k]]
        /\ remote' = remote /\ nextId' = nextId]_vars

\* an add of an item on a Collection that was never created
C7_Witness ==
  /\ last.op = "add" /\ last.err = "NotYetCreated" /\ Len(last.args) >= 1
  /\ obj[last.recv].id = None /\ ~obj[last.recv].loaded

C9_PhantomCallsFail ==
  [][((Called("update") \/ Called("delete") \/ Called("items"))
      /\ obj[last'.recv].id = None)
     => /\ last'.err = "NotYetCreated"
        /\ last'.calls = <<>>
        /\ obj'[last'.recv] = obj[last'.recv]
        /\ remote' = remote /\ nextId' = nextId]_vars

\* a delete of an instance with no id that still holds a loaded child list
C9_Witness ==
  /\ last.op \in {"update", "delete", "items"} /\ last.err = "NotYetCreated"
  /\ obj[last.recv].id = None /\ steps >= 2

\* the tag spells word, each letter in either case
SpelledAnyCase(tag, word) ==
  /\ Len(tag) = Len(word)
  /\ \A i \in DOMAIN tag : tag[i] = word[i] \/ tag[i] = UpperChar(word[i])

\* the fields the resolver must read: the content envelope's when the record
\* has one, the record's own otherwise
TagSource(d) == IF d.hasContent THEN d.content ELSE [hasTag |-> d.hasTag, tag |-> d.tag]

S3Spellings == {ident.s3key, ident.S3Key, ident.s3Key}

\* C11: for File, whose accepted identifiers contain s3_key, each of the
\* wire keys s3key, S3Key and s3Key in a record is bound to the local
\* identifier s3_key, by the first of the three rules (lower-cased key,
\* camelCase to snake_case, underscore after digits) that matches.
C11_S3KeySpellings ==
  (constructed.done /\ wire.cls = "File") =>
    \A k \in wire.keys \cap S3Spellings :
      /\ reconcile("File", k) = ident.s3_key
      /\ ident.s3_key \in constructed.kwargs
      /\ k \notin constructed.kwargs

\* none of the three rules matches wire key k for class cls
Unmatched(cls, k) ==
  /\ k_lower(k) \notin get_all_class_args(cls)
  /\ k_camel(k) \notin get_all_class_args(cls)
  /\ k_camel_num(k) \notin get_all_class_args(cls)

\* the record is structurally valid: without its unmatched keys it constructs
StructurallyValid(rec) ==
  from_dict(rec.cls, [rec EXCEPT !.keys = {k \in @ : ~Unmatched(rec.cls, k)}]).err = ""

\* C12: constructing from a structurally valid record with a key that none
\* of the three rules matches never raises, for every class, and the
\* instance carries that key verbatim as an attribute.
C12_UnknownKeyKept ==
  (constructed.done /\ StructurallyValid(wire)) =>
    \A k \in wire.keys :
      Unmatched(wire.cls, k) => constructed.err = "" /\ k \in constructed.attrs

\* C19: a Dataset has no parent, type or state attribute, built locally or
\* constructed from a wire record, also one whose content carries a state
\* or that carries a parent entry.
C19_DatasetRootFields ==
  /\ local_Dataset.err = "" /\ local_Dataset.attrs \cap {ident.parent, ident.type, ident.state} = {}
  /\ (constructed.done /\ wire.cls = "Dataset" /\ constructed.err = "") =>
       constructed.attrs \cap {ident.parent, ident.type, ident.state} = {}

\* the node holds an entry under (c, k)
HasProperty(node, c, k) ==
  c \in DOMAIN node.properties /\ k \in DOMAIN node.properties[c]

\* the entry under (c, k) is the same before and after the step
SameProperty(c, k) ==
  /\ HasProperty(pnode', c, k) <=> HasProperty(pnode, c, k)
  /\ HasProperty(pnode, c, k) => pnode'.properties[c][k] = pnode.properties[c][k]

\* the last of the entries named (c, k)
LastNamed(entries, c, k) ==
  entries[CHOOSE i \in DOMAIN entries :
            /\ entries[i].category = c /\ entries[i].key = k
            /\ \A j \in DOMAIN entries :
                 (entries[j].category = c /\ entries[j].key = k) => j <= i]

C14_PropertyRoundTrip ==
  echo # NoProperty => echo = prop

\* C15: two nodes that both have ids are equal iff the ids match; when at
\* least one has no id they are equal only as the same instance; equality is
\* reflexive and symmetric for all nodes.
C15_NodeEquality ==
  \A a, b \in Live :
    /\ (obj[a].id # None /\ obj[b].id # None) => (eq(World, a, b) <=> obj[a].id = obj[b].id)
    /\ (obj[a].id = None \/ obj[b].id = None) => (eq(World, a, b) <=> a = b)
    /\ eq(World, a, a)
    /\ eq(World, a, b) <=> eq(World, b, a)

\* two instances of one id, two instances without an id, and an instance
\* with an id beside one without
C15_Witness ==
  /\ \E a, b \in Live : a # b /\ obj[a].id # None /\ obj[a].id = obj[b].id
  /\ \E a, b \in Live : a # b /\ obj[a].id = None /\ obj[b].id = None
  /\ last.op = "remove"

\* the container from_dict returned holds exactly the children of its
\* record, in the order of the 'children' block, each of the class the
\* resolver gives and linked under the container
ChildrenAttached(c) ==
  LET kids == SetToSeq(ChildIds(remote, obj'[c].id))
      its == obj'[c].items
  IN /\ obj'[c].loaded
     /\ Len(its) = Len(kids)
     /\ \A k \in DOMAIN its :
          /\ obj'[its[k]].live
          /\ obj'[its[k]].id = kids[k]
          /\ obj'[its[k]].kind = get_package_class(wire_of(remote[kids[k]]))
          /\ LinkedUnder(obj'[its[k]], obj'[c])

\* C20 as stated: from_dict on a record with a 'children' block gives a
\* container whose _items is exactly the constructed children; on a record
\* with no block _items is unloaded.
C20_FromDictChildren ==
  [][/\ Called("from_dict_children") => ChildrenAttached(last'.recv)
     /\ Called("from_dict") => ~obj'[last'.recv].loaded]_vars

\* C20: from_dict on a record of a Collection or Dataset with an id whose
\* 'children' block is not empty gives a container whose _items is exactly
\* the constructed children in the block's order, each child of the class the
\* resolver gives and linked as by add; on a record with no block, or with
\* an empty one, _items is unloaded.
C20_FromDictChildrenNonEmpty ==
  [][/\ Called("from_dict_children") =>
          IF ChildIds(remote, obj'[last'.recv].id) # {}
          THEN ChildrenAttached(last'.recv)
          ELSE ~obj'[last'.recv].loaded
     /\ Called("from_dict") => ~obj'[last'.recv].loaded]_vars

\* a Dataset built from a record whose block holds a Collection and a
\* DataPackage
C20_Witness ==
  /\ last.op = "from_dict_children" /\ obj[last.recv].kind = "Dataset"
  /\ obj[last.recv].loaded /\ Len(obj[last.recv].items) = 2
  /\ obj[obj[last.recv].items[1]].kind = "Collection"
  /\ obj[obj[last.recv].items[2]].kind = "DataPackage"
  /\ obj[obj[last.recv].items[1]].dataset = obj[last.recv].id

RECURSIVE Branches(_, _)
\* the root-to-leaf id paths of a tree, each with its leaf
Branches(t, prefix) ==
  UNION {IF t[k].isDict THEN Branches(t[k].sub, prefix \o <<k>>)
         ELSE {<<prefix \o <<k>>, t[k].node>>} : k \in DOMAIN t}

\* a step of the fold, and the tree it merged in
Merged == Len(folded') = Len(folded) + 1
MergedTree == folded'[Len(folded')]

\* C16: merging the trees of paths [A,B,C] and [A,B,D] gives one tree where
\* A's only child is B and B holds the leaves C and D; the trees of [A,B] and
\* [A,X] merge with A holding B and X; in general a key of only one tree is
\* copied and a key whose values are dicts in both is merged recursively, so
\* the merged tree has the branches of both.
C16_MergeUnion ==
  [][Merged =>
       /\ (acc = make_tree(<<1, 2, 3>>) /\ MergedTree = make_tree(<<1, 2, 4>>)) =>
            /\ mres'.err = ""
            /\ acc' = dict_put(EmptyDict, 1, Dict(dict_put(EmptyDict, 2,
                        Dict(dict_put(dict_put(EmptyDict, 3, Leaf(3)), 4, Leaf(4))))))
       /\ (acc = make_tree(<<1, 2>>) /\ MergedTree = make_tree(<<1, 3>>)) =>
            /\ mres'.err = ""
            /\ acc' = dict_put(EmptyDict, 1,
                        Dict(dict_put(dict_put(EmptyDict, 2, Leaf(2)), 3, Leaf(3))))
       /\ mres'.err = "" =>
            /\ DOMAIN acc' = DOMAIN acc \cup DOMAIN MergedTree
            /\ \A k \in DOMAIN acc' :
                 IF k \notin DOMAIN acc THEN acc'[k] = MergedTree[k]
                 ELSE IF k \notin DOMAIN MergedTree THEN acc'[k] = acc[k]
                 ELSE IF acc[k].isDict /\ MergedTree[k].isDict
                      THEN /\ acc'[k].isDict
                           /\ Branches(acc'[k].sub, <<>>) =
                                Branches(acc[k].sub, <<>>) \cup Branches(MergedTree[k].sub, <<>>)
                      ELSE acc'[k] = acc[k]
            /\ Branches(acc', <<>>) = Branches(acc, <<>>) \cup Branches(MergedTree, <<>>)]_vars

\* the trees of [A,B,C] and [A,B,D] merged
C16_Witness ==
  /\ folded = <<make_tree(<<1, 2, 3>>), make_tree(<<1, 2, 4>>)>>
  /\ mres.err = ""
  /\ DOMAIN acc = {1} /\ DOMAIN acc[1].sub = {2} /\ DOMAIN acc[1].sub[2].sub = {3, 4}

RECURSIVE LeafConflicts(_, _, _)
\* the id paths, reached through dicts of both trees, at which both trees
\* hold leaves and the leaves differ
LeafConflicts(a, b, path) ==
  UNION {IF a[k].isDict /\ b[k].isDict THEN LeafConflicts(a[k].sub, b[k].sub, path \o <<k>>)
         ELSE IF ~a[k].isDict /\ ~b[k].isDict /\ a[k].node # b[k].node
              THEN {path \o <<k>>}
              ELSE {} : k \in DOMAIN a \cap DOMAIN b}

\* C17: merge fails, with the conflict error naming the offending id path,
\* if and only if some key is in both trees with differing values neither of
\* which is a dict; equal leaves under one key never conflict.
C17_ConflictIffLeavesDiffer ==
  [][Merged =>
       /\ mres'.err # "" <=> LeafConflicts(acc, MergedTree, <<>>) # {}
       /\ mres'.err # "" =>
            /\ mres'.err = "Conflict"
            /\ mres'.at \in LeafConflicts(acc, MergedTree, <<>>)]_vars

RECURSIVE Fold(_, _, _)
\* reduce(merge, trees) continued from tree t with trees[i]
Fold(t, trees, i) ==
  IF i > Len(trees) THEN [tree |-> t, err |-> ""]
  ELSE LET r == merge(t, trees[i])
       IN IF r.err # "" THEN [tree |-> t, err |-> r.err]
          ELSE Fold(r.tree, trees, i + 1)

\* C18: for per-path trees that do not conflict merge is commutative and
\* associative: the fold of every permutation of the trees gives the same
\* merged tree, and so does merging the first with the merge of the rest.
C18_MergeOrderFree ==
  (mres.err = "" /\ \A i \in DOMAIN folded : folded[i] \in PathTrees) =>
    /\ \A f \in Permutations(DOMAIN folded) :
         LET trees == [i \in DOMAIN folded |-> folded[f[i]]]
         IN Fold(trees[1], trees, 2) = [tree |-> acc, err |-> ""]
    /\ Len(folded) >= 2 =>
         LET rest == Fold(folded[2], folded, 3)
         IN rest.err = "" /\ merge(folded[1], rest.tree) = [tree |-> acc, err |-> "", at |-> <<>>]

\* three different per-path trees folded, two of them sharing a prefix of
\* two ids
C18_Witness ==
  /\ Len(folded) = 3 /\ mres.err = ""
  /\ folded[1] = make_tree(<<1, 2, 3>>)
  /\ folded[2] = make_tree(<<4, 1>>)
  /\ folded[3] = make_tree(<<1, 2, 4>>)

\* the path a per-path tree was made of
PathOf(t) == (CHOOSE b \in Branches(t, <<>>) : TRUE)[1]

\* paths taken from one hierarchy: an id has one position, under one chain
\* of ancestors, in every path it occurs in
Consistent(ps) ==
  \A p \in ps, q \in ps : \A i \in DOMAIN p, j \in DOMAIN q :
    p[i] = q[j] => i = j /\ SubSeq(p, 1, i) = SubSeq(q, 1, j)

\* the fold so far was over per-path trees of one consistent hierarchy
ConsistentFold ==
  /\ \A i \in DOMAIN folded : folded[i] \in PathTrees
  /\ Consistent({PathOf(folded[i]) : i \in DOMAIN folded})

\* C21: folding the per-path trees of entities of one consistent hierarchy
\* with merge never fails, also when the entities include a collection and
\* one of its descendants (paths [A,B] and [A,B,C]).
C21_ConsistentFoldSucceeds == ConsistentFold => mres.err = ""

\* the weaker reading: the fold over a consistent hierarchy never ends in
\* the 'Conflict at' exception
C21_NoConflictError == ConsistentFold => mres.err # "Conflict"

\* an add on an existing receiver whose remote create failed
AddFailed == Called("add") /\ obj[last'.recv].id # None /\ last'.err = "RemoteError"
\* the receiver's list as the add found it (None counts as empty)
ItemsBefore == IF obj[last'.recv].loaded THEN obj[last'.recv].items ELSE <<>>
\* the position in the argument list of the item whose create failed
FailedAt == Len(obj'[last'.recv].items) - Len(ItemsBefore) + 1

\* the part of C22 about the items before the failing one: the error
\* surfaces with one create issued for the failing item, and the items
\* before it are created and appended in order
C22_CreatedBeforeFailure ==
  [][AddFailed =>
       /\ FailedAt \in DOMAIN last'.args
       /\ Cardinality({j \in Creates(last'.calls) :
                         last'.calls[j].target = last'.args[FailedAt]}) = 1
       /\ last'.calls[Len(last'.calls)].target = last'.args[FailedAt]
       /\ obj'[last'.recv].items = ItemsBefore \o SubSeq(last'.args, 1, FailedAt - 1)
       /\ \A j \in 1..(FailedAt - 1) : obj'[last'.args[j]].id # None]_vars

\* C22: when the remote create fails for the k-th item of add(i1..in), the
\* error surfaces at that call with no retry, i1..i(k-1) are created and
\* appended to _items, and ik..in are neither appended nor modified.
C22_PartialAdd ==
  [][AddFailed =>
       /\ FailedAt \in DOMAIN last'.args
       /\ Cardinality({j \in Creates(last'.calls) :
                         last'.calls[j].target = last'.args[FailedAt]}) = 1
       /\ obj'[last'.recv].items = ItemsBefore \o SubSeq(last'.args, 1, FailedAt - 1)
       /\ \A j \in 1..(FailedAt - 1) : obj'[last'.args[j]].id # None
       /\ \A j \in FailedAt..Len(last'.args) :
            (\A i \in 1..(FailedAt - 1) : last'.args[i] # last'.args[j]) =>
              obj'[last'.args[j]] = obj[last'.args[j]]]_vars

RECURSIVE Ancestors(_, _, _)
\* the ancestors of id i in the store, outermost first (at most n of them)
Ancestors(rem, i, n) ==
  IF rem[i].parent = None \/ n = 0 THEN <<>>
  ELSE Ancestors(rem, rem[i].parent, n - 1) \o <<rem[i].parent>>

\* what C23 says of a call that has returned
PathReturned ==
  LET anc == Ancestors(remote, walk.item, MaxId)
  IN /\ Len(walk.lookups) = Len(anc) + 1
     /\ \A k \in 1..Len(anc) : walk.lookups[k].verb = "get"
     /\ walk.lookups[Len(anc) + 1].verb = "get_dataset"
     /\ walk.path = <<remote[walk.item].dataset>> \o anc \o <<walk.item>>

\* C23: for an entity whose chain of parent links is finite, get_item_path
\* terminates, after one ancestor lookup per parent link plus one dataset
\* lookup, and returns the owning dataset, then the ancestors from outermost
\* to innermost, then the entity itself.
C23_ItemPath ==
  /\ <>walk.done
  /\ [](walk.done => PathReturned)
  /\ [](Len(walk.lookups) <= Len(Ancestors(remote, walk.item, MaxId)) + 1)

\* the path of an entity two Collections deep
C23_Witness ==
  /\ walk.done /\ Len(walk.path) = 4 /\ Len(walk.lookups) = 3
  /\ walk.path[4] = walk.item
  /\ remote[walk.path[4]].parent = walk.path[3]
  /\ remote[walk.path[3]].parent = walk.path[2]
  /\ ~remote[walk.path[1]].hasTag

\* in objs and rem, every loaded child list of an existing container holds
\* exactly the store's direct children of that container, each once
CacheExact(objs, rem) ==
  \A c \in Objs :
    (objs[c].live /\ IsCollectionKind(objs[c].kind) /\ objs[c].id # None /\ objs[c].loaded) =>
      /\ {objs[objs[c].items[k]].id : k \in DOMAIN objs[c].items} = ChildIds(rem, objs[c].id)
      /\ Len(objs[c].items) = Cardinality(ChildIds(rem, objs[c].id))

\* C24: with this client the only writer, a loaded _items holds exactly the
\* store's direct children of the container after every add, remove and
\* read of items, also after an add made while _items was unloaded on a
\* container that already has children in the store.
C24_CacheMatchesStore ==
  [][((Called("add") \/ Called("remove") \/ Called("items")) /\ CacheExact(obj, remote))
     => CacheExact(obj', remote')]_vars

\* C25: an add on a container whose _items is unloaded, the remote create of
\* the first item failing, leaves _items unloaded, so that the next read of
\* items fetches from the store.
C25_FailedAddStaysUnloaded ==
  [][(/\ AddFailed
      /\ ~obj[last'.recv].loaded
      /\ Len(last'.calls) = 1
      /\ last'.calls[1].target = last'.args[1])
     => ~obj'[last'.recv].loaded]_vars

\* a from_dict call has just returned or raised
Built1 == Len(constructed'.ids) = Len(constructed.ids) + 1

\* C26: from_dict leaves the wire record it is given as it was, so a second
\* construction from the same record (whose nested parent record the first
\* construction has been through) yields a node of the same id and parent.
C26_WireRecordUnchanged ==
  [][Built1 =>
       /\ wire' = wire
       /\ (Len(constructed.ids) = 1 /\ constructed.err = "" /\ constructed'.err = "") =>
            constructed'.ids[2] = constructed'.ids[1]]_vars

\* C27: set_ready, set_unavailable and set_error on a data node with no id
\* all fail with the not-yet-created error and leave the node's state as it
\* was.
C27_StateSettersOnPhantom ==
  [][((Called("set_ready") \/ Called("set_unavailable") \/ Called("set_error"))
      /\ obj[last'.recv].id = None)
     => /\ last'.err = "NotYetCreated"
        /\ last'.calls = <<>>
        /\ obj'[last'.recv].state = obj[last'.recv].state]_vars

\* the part of C27 about the two setters that check first
C27_CheckedSetters ==
  [][((Called("set_unavailable") \/ Called("set_error")) /\ obj[last'.recv].id = None)
     => /\ last'.err = "NotYetCreated"
        /\ last'.calls = <<>>
        /\ obj'[last'.recv] = obj[last'.recv]]_vars

\* `x in collection.items`
in_items(W, c, x) ==
  LET W1 == items_read(W, c, 0)
  IN [err |-> W1.err, answer |-> W1.err = "" /\ contains(W1, W1.obj[c].items, x)]

\* C28: for an existing container the membership test `x in collection`
\* with an entity x gives the answer of `x in collection.items`, whether
\* _items is loaded or not, and the answer of the test with the id of x.
C28_MembershipAgrees ==
  \A c \in Collections, x \in Live :
    (obj[c].id # None /\ RoomFor(c) /\ remote[obj[c].id].present) =>
      /\ collection_contains(World, c, x) = in_items(World, c, x)
      /\ obj[x].id # None =>
           collection_contains(World, c, x) = collection_contains_id(World, c, obj[x].id)

\* the part of C28 about a loaded _items
C28_AgreesWhenLoaded ==
  \A c \in Collections, x \in Live :
    (obj[c].id # None /\ obj[c].loaded) =>
      /\ collection_contains(World, c, x) = in_items(World, c, x)
      /\ obj[x].id # None =>
           collection_contains(World, c, x) = collection_contains_id(World, c, obj[x].id)

\* the part of C29 about the node itself: a delete that succeeded unsets the
\* id, and every later update, delete or state change on a node without an
\* id fails with the not-yet-created error and no remote call
C29_DeletedNodeUnusable ==
  [][/\ (Called("delete") /\ last'.err = "") =>
          (obj[last'.recv].id # None /\ obj'[last'.recv].id = None)
     /\ ((Called("update") \/ Called("delete") \/ Called("set_ready")
          \/ Called("set_unavailable") \/ Called("set_error"))
         /\ obj[last'.recv].id = None) =>
          (last'.err = "NotYetCreated" /\ last'.calls = <<>>)]_vars

\* C29: after a delete that succeeded the node has no id, exists is false,
\* every later update, delete or state change on it fails with the
\* not-yet-created error, and the node is not an element of the items of any
\* container that had it loaded.
C29_DeletedNodeGone ==
  [][/\ (Called("delete") /\ last'.err = "") =>
          /\ obj[last'.recv].id # None /\ obj'[last'.recv].id = None
          /\ \A c \in Objs :
               (obj[c].live /\ obj[c].loaded /\ InArgs(last'.recv, obj[c].items)
                /\ obj'[c].live /\ obj'[c].loaded) =>
                 ~InArgs(last'.recv, obj'[c].items)
     /\ ((Called("update") \/ Called("delete") \/ Called("set_ready")
          \/ Called("set_unavailable") \/ Called("set_error"))
         /\ obj[last'.recv].id = None) =>
          (last'.err = "NotYetCreated" /\ last'.calls = <<>>)]_vars

\* a remove_property call has just returned or raised; its key and category
Removed == pcall'.n = pcall.n + 1 /\ pcall'.op = "remove_property"
RemovedKey == pcall'.args[1].key
RemovedCategory == pcall'.args[1].category

\* the part of C30 about the calls whose remote update does not fail
C30_RemoveWhenPushed ==
  [][Removed =>
       /\ ~HasProperty(pnode, RemovedCategory, RemovedKey) =>
            (~pcall'.pushed /\ pnode' = pnode)
       /\ (HasProperty(pnode, RemovedCategory, RemovedKey) /\ pcall'.err = "") =>
            /\ pcall'.pushed
            /\ ~HasProperty(pnode', RemovedCategory, RemovedKey)
            /\ \A c \in Categories, k \in PropKeys :
                 <<c, k>> # <<RemovedCategory, RemovedKey>> => SameProperty(c, k)]_vars

\* C30: remove_property issues no remote call and changes nothing when the
\* key is absent from the category; when it is present the entry is removed
\* locally only after the remote update succeeded, and when that update
\* fails the local store, the entry and its value, is as it was.
C30_RemoveProperty ==
  [][Removed =>
       /\ ~HasProperty(pnode, RemovedCategory, RemovedKey) =>
            (~pcall'.pushed /\ pnode' = pnode)
       /\ (HasProperty(pnode, RemovedCategory, RemovedKey) /\ pcall'.err = "") =>
            (pcall'.pushed /\ ~HasProperty(pnode', RemovedCategory, RemovedKey))
       /\ (HasProperty(pnode, RemovedCategory, RemovedKey) /\ pcall'.err # "") =>
            pnode' = pnode]_vars

====
